---- MODULE Spec2Model ----
(***************************************************************************)
(* Debt management coach: the DebtManagementCoach component (the debt      *)
(* list, the budget, the tabs and the strategy choice) and the PaymentPlan *)
(* component, whose calculatePaymentPlan simulates the repayment month by  *)
(* month.                                                                  *)
(*                                                                         *)
(* Numbers.  The source computes in IEEE doubles.  Here a money amount is  *)
(* an integer number of cents and an interest rate an integer number of    *)
(* hundredths of a percent per year (18.99% is 1899), so that              *)
(* interestRate / 100 / 12 of the source is rate / 120000 here; the        *)
(* month's interest is truncated to whole cents.  The small inputs of the  *)
(* model use the rates 0 and 120000 (100% a month), for which both the     *)
(* source's arithmetic and the model's are exact.                          *)
(***************************************************************************)
EXTENDS Integers, Sequences, FiniteSets, TLC

VARIABLES
    debts,              \* coach: useState<Debt[]>
    monthlyBudget,      \* coach: useState<number>
    activeTab,          \* coach: "input" | "strategy" | "results"
    selectedStrategy,   \* coach: useState<string>
    nextId,             \* the clock behind Date.now(), as a counter
    edits,              \* how many edits the input tab has taken
    planDebts,          \* PaymentPlan props.debts
    pc,                 \* position of PaymentPlan's effect
    workingDebts,       \* calculatePaymentPlan locals
    schedule,
    month,
    totalPaid,
    totalInterestPaid,
    remainingBudget,
    monthlyPayments,
    paymentSchedule,    \* PaymentPlan: useState
    totalMonths,
    totalInterestPaidState,
    totalPaidState,
    invocations         \* how many times the effect has run since the mount

vars == <<debts, monthlyBudget, activeTab, selectedStrategy, nextId, edits, planDebts,
          pc, workingDebts, schedule, month, totalPaid, totalInterestPaid,
          remainingBudget, monthlyPayments, paymentSchedule, totalMonths,
          totalInterestPaidState, totalPaidState, invocations>>

coachVars == <<debts, monthlyBudget, activeTab, selectedStrategy, nextId, edits>>

localVars == <<workingDebts, schedule, month, totalPaid, totalInterestPaid,
               remainingBudget, monthlyPayments>>

planState == <<paymentSchedule, totalMonths, totalInterestPaidState, totalPaidState>>

Strategies == {"avalanche", "snowball", "highestPaymentFirst", "lowestPaymentFirst"}

\* The loop's limit of 600 months.
CapMonths == 600

Min(a, b) == IF a <= b THEN a ELSE b

Max(a, b) == IF a >= b THEN a ELSE b

RECURSIVE SumOver(_, _)
\* reduce((sum, x) => sum + f(x), 0) over a sequence of integers
SumOver(s, n) == IF n = 0 THEN 0 ELSE SumOver(s, n - 1) + s[n]

Sum(s) == SumOver(s, Len(s))

Debt(id, balance, interestRate, minimumPayment) ==
    [id |-> id, balance |-> balance, interestRate |-> interestRate,
     minimumPayment |-> minimumPayment]

----------------------------------------------------------------------------
(* Sorting: Array.prototype.sort is stable, so an element goes after every *)
(* element the comparator does not put behind it.                          *)

\* A faulty variant: snowball compares the balances of the input, not what is left of them.
Compare_SnowballOnBalance(strategy, a, b) ==
    CASE strategy = "avalanche" -> b.interestRate - a.interestRate
      [] strategy = "snowball" -> a.balance - b.balance
      [] strategy = "highestPaymentFirst" -> b.minimumPayment - a.minimumPayment
      [] strategy = "lowestPaymentFirst" -> a.minimumPayment - b.minimumPayment

\* A faulty variant: highestPaymentFirst sorts the lowest minimum payment first.
Compare_HighestAscending(strategy, a, b) ==
    CASE strategy = "avalanche" -> b.interestRate - a.interestRate
      [] strategy = "snowball" -> a.remainingBalance - b.remainingBalance
      [] strategy = "highestPaymentFirst" -> a.minimumPayment - b.minimumPayment
      [] strategy = "lowestPaymentFirst" -> a.minimumPayment - b.minimumPayment

\* The comparator of each strategy inside calculatePaymentPlan of PaymentPlan.
Compare(strategy, a, b) ==
    CASE strategy = "avalanche" -> b.interestRate - a.interestRate
      [] strategy = "snowball" -> a.remainingBalance - b.remainingBalance
      [] strategy = "highestPaymentFirst" -> b.minimumPayment - a.minimumPayment
      [] strategy = "lowestPaymentFirst" -> a.minimumPayment - b.minimumPayment

\* The comparator of each strategy inside calculatePaymentPlan of the coach.
CoachCompare(strategy, a, b) ==
    CASE strategy = "avalanche" -> b.interestRate - a.interestRate
      [] strategy = "snowball" -> a.balance - b.balance
      [] strategy = "highestPaymentFirst" -> b.minimumPayment - a.minimumPayment
      [] strategy = "lowestPaymentFirst" -> a.minimumPayment - b.minimumPayment

\* Where x goes in a sorted array: before the first element the comparator
\* puts behind it (later: the positions of those elements).
InsertAt(sorted, x, later) ==
    LET at == IF later = {} THEN Len(sorted) + 1
              ELSE CHOOSE i \in later : \A j \in later : i <= j
    IN  SubSeq(sorted, 1, at - 1) \o <<x>> \o SubSeq(sorted, at, Len(sorted))

RECURSIVE SortDebts(_, _, _)
\* sortedDebts.sort(...) of the coach, on the first n debts of ds
SortDebts(ds, n, strategy) ==
    IF n = 0 THEN <<>>
    ELSE LET sorted == SortDebts(ds, n - 1, strategy)
         IN  InsertAt(sorted, ds[n],
                 {i \in 1..Len(sorted) : CoachCompare(strategy, sorted[i], ds[n]) > 0})

RECURSIVE SortActive_Unstable(_, _, _, _)
\* A faulty variant: a sort that puts an element before the elements it ties with.
SortActive_Unstable(active, n, strategy, wd) ==
    IF n = 0 THEN <<>>
    ELSE LET sorted == SortActive_Unstable(active, n - 1, strategy, wd)
         IN  InsertAt(sorted, active[n],
                 {i \in 1..Len(sorted) :
                     Compare(strategy, wd[sorted[i]], wd[active[n]]) >= 0})

RECURSIVE SortActive(_, _, _, _)
\* activeDebts.sort(...) of PaymentPlan: the active debts are references into
\* workingDebts, held here as positions in wd; the first n of them are sorted
SortActive(active, n, strategy, wd) ==
    IF n = 0 THEN <<>>
    ELSE LET sorted == SortActive(active, n - 1, strategy, wd)
         IN  InsertAt(sorted, active[n],
                 {i \in 1..Len(sorted) :
                     Compare(strategy, wd[sorted[i]], wd[active[n]]) > 0})

----------------------------------------------------------------------------
(* PaymentPlan: calculatePaymentPlan.                                      *)

\* A faulty variant: the working debts of the run before are used again.
CloneDebts_Stale(ds) ==
    IF ds # <<>> /\ Len(workingDebts) = Len(ds) THEN workingDebts
    ELSE [i \in 1..Len(ds) |->
            [id |-> ds[i].id, balance |-> ds[i].balance,
             interestRate |-> ds[i].interestRate,
             minimumPayment |-> ds[i].minimumPayment,
             remainingBalance |-> ds[i].balance, isPaidOff |-> FALSE]]

\* debts.map((debt) => ({...debt, remainingBalance: debt.balance, isPaidOff: false}))
CloneDebts(ds) ==
    [i \in 1..Len(ds) |->
        [id |-> ds[i].id, balance |-> ds[i].balance,
         interestRate |-> ds[i].interestRate,
         minimumPayment |-> ds[i].minimumPayment,
         remainingBalance |-> ds[i].balance, isPaidOff |-> FALSE]]

\* debt.remainingBalance * (debt.interestRate / 100 / 12), rates in hundredths
\* of a percent
InterestThisMonth(d) == (d.remainingBalance * d.interestRate) \div (100 * 100 * 12)

PaymentAmount(d) == Min(d.minimumPayment, d.remainingBalance + InterestThisMonth(d))

\* A faulty variant: the whole payment goes to the principal.
PrincipalPayment_IgnoresInterest(d) == PaymentAmount(d)

\* A faulty variant: interest the payment does not cover is added to the balance.
PrincipalPayment_Unfloored(d) == PaymentAmount(d) - InterestThisMonth(d)

PrincipalPayment(d) == Max(0, PaymentAmount(d) - InterestThisMonth(d))

\* A faulty variant: the whole interest of the month counts as paid.
InterestPayment_WholeInterest(d) == InterestThisMonth(d)

InterestPayment(d) == PaymentAmount(d) - PrincipalPayment(d)

\* The debt after the forEach body: a paid-off debt is left as it is.
AfterMinimum(d) ==
    IF d.isPaidOff THEN d
    ELSE LET rb == Max(0, d.remainingBalance - PrincipalPayment(d))
         IN  [d EXCEPT !.remainingBalance = rb, !.isPaidOff = (rb = 0)]

\* The record the forEach body pushes for the debt.
MinimumRecord(d) ==
    IF d.isPaidOff
    THEN [debtId |-> d.id, amount |-> 0, remainingBalance |-> 0, isPaidOff |-> TRUE]
    ELSE [debtId |-> d.id, amount |-> PaymentAmount(d),
          remainingBalance |-> AfterMinimum(d).remainingBalance,
          isPaidOff |-> AfterMinimum(d).isPaidOff]

\* What the minimum payments of the month add up to (paid-off debts pay nothing).
MinimumPaid(wd) ==
    Sum([i \in 1..Len(wd) |-> IF wd[i].isPaidOff THEN 0 ELSE PaymentAmount(wd[i])])

MinimumInterest(wd) ==
    Sum([i \in 1..Len(wd) |-> IF wd[i].isPaidOff THEN 0 ELSE InterestPayment(wd[i])])

RECURSIVE Filter(_, _, _)
\* workingDebts.filter((debt) => !debt.isPaidOff), as positions in wd
Filter(wd, n, acc) ==
    IF n > Len(wd) THEN acc
    ELSE Filter(wd, n + 1, IF wd[n].isPaidOff THEN acc ELSE Append(acc, n))

ActiveDebts(wd) == Filter(wd, 1, <<>>)

\* activeDebts.sort(...)[0]: the position in wd of the debt that gets the extra
\* payment (there is an active debt)
TargetDebt(strategy, wd) ==
    LET active == ActiveDebts(wd)
    IN  Head(SortActive(active, Len(active), strategy, wd))

\* monthlyPayments.find((p) => p.debtId === id): the first record with the id, 0
\* when there is none
FindRecord(payments, id) ==
    LET hits == {i \in 1..Len(payments) : payments[i].debtId = id}
    IN  IF hits = {} THEN 0 ELSE CHOOSE i \in hits : \A j \in hits : i <= j

\* A faulty variant: the whole of the budget left goes to the target.
ExtraAmount_WholeBudget(budgetLeft, d) == budgetLeft

ExtraAmount(budgetLeft, d) == Min(budgetLeft, d.remainingBalance)

\* A faulty variant: the loop runs one month beyond the limit.
LoopCondition_OneMore ==
    /\ \E i \in 1..Len(workingDebts) : ~workingDebts[i].isPaidOff
    /\ month <= CapMonths + 1

\* A faulty variant: the loop stops one month early.
LoopCondition_OffByOne ==
    /\ \E i \in 1..Len(workingDebts) : ~workingDebts[i].isPaidOff
    /\ month < CapMonths

\* while (workingDebts.some((debt) => !debt.isPaidOff) && month <= 600)
LoopCondition ==
    /\ \E i \in 1..Len(workingDebts) : ~workingDebts[i].isPaidOff
    /\ month <= CapMonths

\* The effect of the mounted component runs calculatePaymentPlan: its locals.
RunEffect ==
    /\ pc = "mounted"
    /\ workingDebts' = CloneDebts(planDebts)
    /\ schedule' = <<>>
    /\ month' = 1
    /\ totalPaid' = 0
    /\ totalInterestPaid' = 0
    /\ remainingBudget' = 0
    /\ monthlyPayments' = <<>>
    /\ invocations' = invocations + 1
    /\ pc' = "loop"
    /\ UNCHANGED <<coachVars, planDebts, planState>>

\* The loop body up to the end of the forEach: the minimum payments.
MinimumPayments ==
    /\ pc = "loop"
    /\ LoopCondition
    /\ workingDebts' = [i \in 1..Len(workingDebts) |-> AfterMinimum(workingDebts[i])]
    /\ monthlyPayments' = [i \in 1..Len(workingDebts) |-> MinimumRecord(workingDebts[i])]
    /\ remainingBudget' = monthlyBudget - MinimumPaid(workingDebts)
    /\ totalPaid' = totalPaid + MinimumPaid(workingDebts)
    /\ totalInterestPaid' = totalInterestPaid + MinimumInterest(workingDebts)
    /\ pc' = "extra"
    /\ UNCHANGED <<coachVars, planDebts, planState, schedule, month, invocations>>

\* The month's snapshot, pushed at the end of the loop body.
Snapshot(wd, payments, paid) ==
    [month |-> month, payments |-> payments,
     totalRemaining |-> Sum([i \in 1..Len(wd) |-> wd[i].remainingBalance]),
     totalPaid |-> paid, totalInterestPaid |-> totalInterestPaid]

\* A faulty variant: a last unit of budget is not worth an extra payment.
HasTarget_MoreThanOne == remainingBudget > 1 /\ ActiveDebts(workingDebts) # <<>>

\* A faulty variant: no extra payment when the budget is below the sum of the
\* minimum payments of the input.
HasTarget_FeasibleOnly ==
    /\ remainingBudget > 0 /\ ActiveDebts(workingDebts) # <<>>
    /\ monthlyBudget >= Sum([i \in 1..Len(planDebts) |-> planDebts[i].minimumPayment])

\* Whether the month has an extra payment to apply.
HasTarget == remainingBudget > 0 /\ ActiveDebts(workingDebts) # <<>>

\* A faulty variant: the extra payment is not added to the amount of the record.
RecordAfterExtra_AmountKept(rec, extra, rb) ==
    [rec EXCEPT !.remainingBalance = rb, !.isPaidOff = (rb = 0)]

\* The payment record of the target after the extra payment.
RecordAfterExtra(rec, extra, rb) ==
    [rec EXCEPT !.amount = @ + extra, !.remainingBalance = rb, !.isPaidOff = (rb = 0)]

\* The rest of the loop body: the extra payment, the snapshot, month++.
ExtraPayment ==
    /\ pc = "extra"
    /\ LET t == TargetDebt(selectedStrategy, workingDebts)
           extra == ExtraAmount(remainingBudget, workingDebts[t])
           rb == workingDebts[t].remainingBalance - extra
           wd == IF HasTarget
                 THEN [workingDebts EXCEPT ![t].remainingBalance = rb,
                                           ![t].isPaidOff = (rb = 0)]
                 ELSE workingDebts
           r == FindRecord(monthlyPayments, workingDebts[t].id)
           payments == IF HasTarget /\ r # 0
                       THEN [monthlyPayments EXCEPT
                                ![r] = RecordAfterExtra(@, extra, rb)]
                       ELSE monthlyPayments
           paid == IF HasTarget THEN totalPaid + extra ELSE totalPaid
       IN  /\ workingDebts' = wd
           /\ monthlyPayments' = payments
           /\ totalPaid' = paid
           /\ schedule' = Append(schedule, Snapshot(wd, payments, paid))
    /\ month' = month + 1
    /\ pc' = "loop"
    /\ UNCHANGED <<coachVars, planDebts, planState, totalInterestPaid,
                   remainingBudget, invocations>>

\* After the loop: setPaymentSchedule, setTotalMonths, setTotalInterestPaid,
\* setTotalPaid.
StoreResults ==
    /\ pc = "loop"
    /\ ~LoopCondition
    /\ paymentSchedule' = schedule
    /\ totalMonths' = Len(schedule)
    /\ totalInterestPaidState' = totalInterestPaid
    /\ totalPaidState' = totalPaid
    /\ pc' = "done"
    /\ UNCHANGED <<coachVars, planDebts, localVars, invocations>>

----------------------------------------------------------------------------
(* DebtManagementCoach.                                                    *)

\* How many times Add Another Debt is clicked.
MaxAdds == 1

\* How many edits (a debt added, changed or removed, the budget changed) the
\* input tab takes in all.
MaxEdits == 2

\* The number typed into a field besides 0: 10 (dollars, or percent).
TypedAmount == 10

\* Number.parseFloat(value) || 0 of what is typed, in cents (or hundredths of a
\* percent)
TypedValues == {0, 100 * TypedAmount}

Fields == {"balance", "interestRate", "minimumPayment"}

\* The two debts and the budget the coach starts with.
DefaultDebts == <<Debt(1, 500000, 1899, 15000), Debt(2, 1500000, 450, 20000)>>

totalMinimumPayment == Sum([i \in 1..Len(debts) |-> debts[i].minimumPayment])

isValidBudget == monthlyBudget >= totalMinimumPayment

\* calculatePaymentPlan of the coach: a sorted copy of debts
SortedDebts == SortDebts(debts, Len(debts), selectedStrategy)

\* No handler runs while the effect of PaymentPlan is running.
Quiet == pc \in {"idle", "done"}

\* An edit on the input tab.
Edit ==
    /\ Quiet /\ activeTab = "input"
    /\ edits < MaxEdits
    /\ edits' = edits + 1

\* The results tab is shown: PaymentPlan mounts with fresh state and the sorted
\* debts as its props.
MountPlan ==
    /\ planDebts' = SortedDebts
    /\ pc' = "mounted"
    /\ paymentSchedule' = <<>>
    /\ totalMonths' = 0
    /\ totalInterestPaidState' = 0
    /\ totalPaidState' = 0
    /\ invocations' = 0
    /\ UNCHANGED localVars

\* The results tab is left: PaymentPlan unmounts and its state is dropped.
UnmountPlan ==
    /\ planDebts' = <<>>
    /\ pc' = "idle"
    /\ paymentSchedule' = <<>>
    /\ totalMonths' = 0
    /\ totalInterestPaidState' = 0
    /\ totalPaidState' = 0
    /\ invocations' = 0
    /\ workingDebts' = <<>>
    /\ schedule' = <<>>
    /\ month' = 1
    /\ totalPaid' = 0
    /\ totalInterestPaid' = 0
    /\ remainingBudget' = 0
    /\ monthlyPayments' = <<>>

planVars == <<planDebts, pc, localVars, planState, invocations>>

\* setActiveTab(tab)
SetActiveTab(tab) ==
    /\ activeTab' = tab
    /\ IF tab = "results" /\ activeTab # "results" THEN MountPlan
       ELSE IF tab # "results" /\ activeTab = "results" THEN UnmountPlan
       ELSE UNCHANGED planVars

addDebt ==
    /\ Edit
    /\ nextId <= 2 + MaxAdds
    /\ debts' = Append(debts, Debt(nextId, 0, 0, 0))
    /\ nextId' = nextId + 1
    /\ UNCHANGED <<monthlyBudget, activeTab, selectedStrategy, planVars>>

updateDebt ==
    /\ Edit
    /\ \E i \in 1..Len(debts), field \in Fields, value \in TypedValues :
          debts' = [debts EXCEPT ![i] = [@ EXCEPT ![field] = value]]
    /\ UNCHANGED <<monthlyBudget, activeTab, selectedStrategy, nextId, planVars>>

removeDebt ==
    /\ Edit
    /\ \E i \in 1..Len(debts) :
          debts' = SubSeq(debts, 1, i - 1) \o SubSeq(debts, i + 1, Len(debts))
    /\ UNCHANGED <<monthlyBudget, activeTab, selectedStrategy, nextId, planVars>>

setMonthlyBudget ==
    /\ Edit
    /\ \E value \in TypedValues : monthlyBudget' = value
    /\ UNCHANGED <<debts, activeTab, selectedStrategy, nextId, planVars>>

setSelectedStrategy ==
    /\ Quiet /\ activeTab = "strategy"
    /\ \E s \in Strategies : selectedStrategy' = s
    /\ UNCHANGED <<debts, monthlyBudget, activeTab, nextId, edits, planVars>>

\* A click on a tab trigger that is not disabled.
TabTrigger ==
    /\ Quiet
    /\ \E tab \in {"input", "strategy", "results"} :
          /\ tab # activeTab
          /\ tab = "strategy" => Len(debts) # 0
          /\ tab = "results" => isValidBudget /\ Len(debts) # 0
          /\ SetActiveTab(tab)
    /\ UNCHANGED <<debts, monthlyBudget, selectedStrategy, nextId, edits>>

\* Continue, on the input tab
Continue ==
    /\ Quiet /\ activeTab = "input"
    /\ Len(debts) # 0
    /\ SetActiveTab("strategy")
    /\ UNCHANGED <<debts, monthlyBudget, selectedStrategy, nextId, edits>>

\* Back on the strategy tab, Edit Debts on the results tab
BackToInput ==
    /\ Quiet /\ activeTab \in {"strategy", "results"}
    /\ SetActiveTab("input")
    /\ UNCHANGED <<debts, monthlyBudget, selectedStrategy, nextId, edits>>

\* Generate Plan, on the strategy tab
handleGeneratePlan ==
    /\ Quiet /\ activeTab = "strategy"
    /\ SetActiveTab("results")
    /\ UNCHANGED <<debts, monthlyBudget, selectedStrategy, nextId, edits>>

\* Back, on the results tab
BackToStrategy ==
    /\ Quiet /\ activeTab = "results"
    /\ SetActiveTab("strategy")
    /\ UNCHANGED <<debts, monthlyBudget, selectedStrategy, nextId, edits>>

----------------------------------------------------------------------------
(* The coach as it starts, with every event of its interface.              *)

Init ==
    /\ debts = DefaultDebts
    /\ monthlyBudget = 60000
    /\ activeTab = "input"
    /\ selectedStrategy = "avalanche"
    /\ nextId = 3
    /\ edits = 0
    /\ planDebts = <<>>
    /\ pc = "idle"
    /\ workingDebts = <<>>
    /\ schedule = <<>>
    /\ month = 1
    /\ totalPaid = 0
    /\ totalInterestPaid = 0
    /\ remainingBudget = 0
    /\ monthlyPayments = <<>>
    /\ paymentSchedule = <<>>
    /\ totalMonths = 0
    /\ totalInterestPaidState = 0
    /\ totalPaidState = 0
    /\ invocations = 0

Next ==
    \/ addDebt
    \/ updateDebt
    \/ removeDebt
    \/ setMonthlyBudget
    \/ setSelectedStrategy
    \/ TabTrigger
    \/ Continue
    \/ BackToInput
    \/ handleGeneratePlan
    \/ BackToStrategy
    \/ RunEffect
    \/ MinimumPayments
    \/ ExtraPayment
    \/ StoreResults

Spec == Init /\ [][Next]_vars

----------------------------------------------------------------------------
(* PaymentPlan on its own: mounted with props drawn from bounded sets, its *)
(* effect then runs calculatePaymentPlan to the end.                       *)

\* How many times the effect runs on the same props.
MaxInvocations == 2

MaxBalance == 3

MaxPayment == 2

\* How far the budget goes above the sum of the minimum payments.
MaxExtra == 2

\* A balance that a budget of one cent a month does not pay off in 600 months.
LargeBalance == 700

\* 0% and 1200% a year (100% a month)
SmallRates == {0, 120000}

TotalMinimum(ds) == Sum([i \in 1..Len(ds) |-> ds[i].minimumPayment])

DebtLists(n) ==
    {[i \in 1..n |-> Debt(i, f[i].balance, f[i].interestRate, f[i].minimumPayment)] :
        f \in [1..n -> [balance : 0..MaxBalance, interestRate : SmallRates,
                        minimumPayment : 0..MaxPayment]]}

Props(ds, budget, strategy) == [debts |-> ds, monthlyBudget |-> budget, strategy |-> strategy]

\* One or two debts and a budget above the sum of the minimum payments.
FeasibleInputs ==
    {Props(ds, TotalMinimum(ds) + e, s) :
        ds \in DebtLists(1) \cup DebtLists(2), e \in 1..MaxExtra, s \in Strategies}

\* Three debts with something to pay on each, and a budget of one cent more
\* than the sum of the minimum payments.
ThreeDebtInputs ==
    {Props([i \in 1..3 |-> Debt(i, f[i].balance, f[i].interestRate, f[i].minimumPayment)],
           f[1].minimumPayment + f[2].minimumPayment + f[3].minimumPayment + 1, s) :
        f \in [1..3 -> [balance : 1..2, interestRate : SmallRates,
                        minimumPayment : 0..1]],
        s \in Strategies}

\* One debt, any budget, negative values too; the strategy makes no difference
\* to a single debt.
SingleDebtInputs ==
    {Props(<<Debt(1, b, r, m)>>, g, "avalanche") :
        b \in -1..MaxBalance, r \in SmallRates \cup {-120000},
        m \in -1..MaxPayment, g \in -1..(MaxPayment + 1)}

\* Two debts and a budget that does not cover their minimum payments.
InfeasibleInputs ==
    {Props(ds, TotalMinimum(ds) - 1, s) :
        ds \in {l \in DebtLists(2) : \A i \in 1..2 : l[i].interestRate = 0
                                                    /\ l[i].minimumPayment > 0},
        s \in Strategies}

\* The scenarios of the specification: one debt of 1200.00 at 12% with a minimum
\* payment and a budget of 1200.00; two debts of 1000.00 at 20% and 5% with
\* minimum payments of 50.00 and a budget of 200.00.
ScenarioA == Props(<<Debt(1, 120000, 1200, 120000)>>, 120000, "avalanche")

ScenarioDebts == <<Debt(1, 100000, 2000, 5000), Debt(2, 100000, 500, 5000)>>

ScenarioB == Props(ScenarioDebts, 20000, "avalanche")

ScenarioC == Props(ScenarioDebts, 20000, "snowball")

\* One cent a month on a debt without interest or minimum payment: paid off in
\* exactly 600 months, or not paid off when the cap stops the loop.
LongInputs ==
    {Props(<<Debt(1, b, 0, 0)>>, 1, "avalanche") : b \in {CapMonths, LargeBalance}}

\* No debts at all.
EmptyInput == Props(<<>>, 0, "avalanche")

Inputs ==
    FeasibleInputs \cup ThreeDebtInputs \cup SingleDebtInputs \cup InfeasibleInputs
        \cup LongInputs \cup {ScenarioA, ScenarioB, ScenarioC, EmptyInput}

\* PaymentPlan as it mounts on props out of a set of inputs.
MountedOn(inputs) ==
    /\ \E in \in inputs :
          /\ planDebts = in.debts
          /\ debts = in.debts
          /\ monthlyBudget = in.monthlyBudget
          /\ selectedStrategy = in.strategy
    /\ activeTab = "results"
    /\ nextId = 3
    /\ edits = 0
    /\ pc = "mounted"
    /\ workingDebts = <<>>
    /\ schedule = <<>>
    /\ month = 1
    /\ totalPaid = 0
    /\ totalInterestPaid = 0
    /\ remainingBudget = 0
    /\ monthlyPayments = <<>>
    /\ paymentSchedule = <<>>
    /\ totalMonths = 0
    /\ totalInterestPaidState = 0
    /\ totalPaidState = 0
    /\ invocations = 0

InitPlan == MountedOn(Inputs)

NextPlan ==
    \/ RunEffect
    \/ MinimumPayments
    \/ ExtraPayment
    \/ StoreResults

PlanSpec == InitPlan /\ [][NextPlan]_vars

\* The effect runs again with the same props: the coach hands a new array to
\* PaymentPlan on every render, and the effect depends on it.
Reinvoke ==
    /\ pc = "done"
    /\ invocations < MaxInvocations
    /\ workingDebts' = CloneDebts(planDebts)
    /\ schedule' = <<>>
    /\ month' = 1
    /\ totalPaid' = 0
    /\ totalInterestPaid' = 0
    /\ remainingBudget' = 0
    /\ monthlyPayments' = <<>>
    /\ invocations' = invocations + 1
    /\ pc' = "loop"
    /\ UNCHANGED <<coachVars, planDebts, planState>>

NextRerun ==
    \/ NextPlan
    \/ Reinvoke

\* The runs that are repeated: those that end within a few months.
RerunInputs ==
    FeasibleInputs \cup ThreeDebtInputs \cup InfeasibleInputs
        \cup {ScenarioA, ScenarioB, ScenarioC, EmptyInput}

InitRerun == MountedOn(RerunInputs)

RerunSpec == InitRerun /\ [][NextRerun]_vars

----------------------------------------------------------------------------
(* The numbers of the source are IEEE 754 binary64 values.  The integers   *)
(* above stand for them where the source's arithmetic is exact; below the  *)
(* arithmetic itself is modelled, each operation rounded to the nearest    *)
(* value with a significand of 53 bits, ties to the even one.  A natural   *)
(* number of any size is a sequence of limbs, the lowest first, without    *)
(* zero limbs at the top; a binary64 value is sign * m * 2^e with m either *)
(* zero (the empty sequence) or of exactly 53 bits.  Exponents stay far    *)
(* inside the range of the format for the amounts used, so neither the     *)
(* subnormal values nor the infinities appear.                             *)

\* Bits of a limb and the limb's base, 2^14: four products of limbs and a
\* carry stay below 2^31.
LimbBits == 14

LimbBase == 16384

\* Bits of the significand of a binary64 value.
MantissaBits == 53

RECURSIVE Trim(_)
Trim(a) == IF a # <<>> /\ a[Len(a)] = 0 THEN Trim(SubSeq(a, 1, Len(a) - 1)) ELSE a

LimbAt(a, k) == IF k \in 1..Len(a) THEN a[k] ELSE 0

RECURSIVE Carry(_, _, _)
\* The limbs of the number whose digits from position k on are those of a, with
\* c carried into position k; a digit may be negative or above the base.
Carry(a, k, c) ==
    IF k > Len(a)
    THEN IF c = 0 THEN <<>> ELSE <<c % LimbBase>> \o Carry(a, k, c \div LimbBase)
    ELSE <<(a[k] + c) % LimbBase>> \o Carry(a, k + 1, (a[k] + c) \div LimbBase)

BigFromInt(n) == Trim(Carry(<<n>>, 1, 0))

BigAdd(a, b) ==
    Trim(Carry([k \in 1..Max(Len(a), Len(b)) |-> LimbAt(a, k) + LimbAt(b, k)], 1, 0))

\* a - b for a >= b
BigSub(a, b) ==
    Trim(Carry([k \in 1..Max(Len(a), Len(b)) |-> LimbAt(a, k) - LimbAt(b, k)], 1, 0))

\* a * b for numbers of at most four limbs
BigMul(a, b) ==
    IF a = <<>> \/ b = <<>> THEN <<>>
    ELSE Trim(Carry([k \in 1..(Len(a) + Len(b) - 1) |->
                        Sum([i \in 1..Len(a) |-> a[i] * LimbAt(b, k + 1 - i)])], 1, 0))

BigLess(a, b) ==
    \/ Len(a) < Len(b)
    \/ /\ Len(a) = Len(b)
       /\ \E k \in 1..Len(a) :
             /\ a[k] < b[k]
             /\ \A j \in (k + 1)..Len(a) : a[j] = b[j]

\* a * 2^n
BigShl(a, n) ==
    IF a = <<>> THEN <<>>
    ELSE [k \in 1..(n \div LimbBits) |-> 0]
            \o Trim(Carry([k \in 1..Len(a) |-> a[k] * 2^(n % LimbBits)], 1, 0))

\* a divided by 2^n, rounded down
BigShr(a, n) ==
    LET whole == n \div LimbBits
        r == n % LimbBits
        rest == IF whole >= Len(a) THEN <<>> ELSE SubSeq(a, whole + 1, Len(a))
    IN  Trim([k \in 1..Len(rest) |->
                (rest[k] \div 2^r) + (LimbAt(rest, k + 1) % 2^r) * 2^(LimbBits - r)])

RECURSIVE SmallBits(_)
SmallBits(n) == IF n = 0 THEN 0 ELSE 1 + SmallBits(n \div 2)

BitLength(a) ==
    IF a = <<>> THEN 0 ELSE LimbBits * (Len(a) - 1) + SmallBits(a[Len(a)])

RECURSIVE DivLimbs(_, _, _, _, _)
\* Long division of a by d (d below 2^16), from limb k down, with the remainder
\* r of the limbs above and their quotient limbs q.
DivLimbs(a, k, d, r, q) ==
    IF k = 0 THEN [quotient |-> Trim(q), remainder |-> r]
    ELSE DivLimbs(a, k - 1, d, (r * LimbBase + a[k]) % d,
                  <<(r * LimbBase + a[k]) \div d>> \o q)

BigDivSmall(a, d) == DivLimbs(a, Len(a), d, 0, <<>>)

Zero == [sign |-> 1, m |-> <<>>, e |-> 0]

\* The significand q, one more when the part r cut off is above half a unit,
\* or is half a unit and q is odd.
RoundedUp(q, r, half) ==
    IF BigLess(half, r) \/ (r = half /\ q[1] % 2 = 1) THEN BigAdd(q, <<1>>) ELSE q

\* A significand that rounding has carried to 54 bits is 2^53: one bit less.
Renormalized(sign, q, e) ==
    IF BitLength(q) > MantissaBits
    THEN [sign |-> sign, m |-> BigShr(q, 1), e |-> e + 1]
    ELSE [sign |-> sign, m |-> q, e |-> e]

\* m of more than 53 bits: its upper 53 bits q, rounded on the k bits below.
Shortened(sign, m, e, k, q) ==
    Renormalized(sign, RoundedUp(q, BigSub(m, BigShl(q, k)), BigShl(<<1>>, k - 1)), e + k)

\* m of n bits
Sized(sign, m, e, n) ==
    IF n <= MantissaBits
    THEN [sign |-> sign, m |-> BigShl(m, MantissaBits - n), e |-> e - (MantissaBits - n)]
    ELSE Shortened(sign, m, e, n - MantissaBits, BigShr(m, n - MantissaBits))

\* sign * m * 2^e rounded to the nearest binary64 value, ties to even.
RoundToDouble(sign, m, e) ==
    IF m = <<>> THEN Zero ELSE Sized(sign, m, e, BitLength(m))

\* The binary64 value of the number n / 2^k, n an integer.
Double(n, k) == RoundToDouble(IF n < 0 THEN -1 ELSE 1, BigFromInt(IF n < 0 THEN -n ELSE n), -k)

Negated(x) == IF x = Zero THEN Zero ELSE [x EXCEPT !.sign = -x.sign]

\* x + y, where x is a units and y is b units of 2^e
AddAligned(x, y, a, b, e) ==
    RoundToDouble(IF x.sign = y.sign \/ BigLess(b, a) THEN x.sign ELSE y.sign,
                  IF x.sign = y.sign THEN BigAdd(a, b)
                  ELSE IF BigLess(a, b) THEN BigSub(b, a) ELSE BigSub(a, b),
                  e)

\* x + y
DoubleAdd(x, y) ==
    IF x = Zero THEN y
    ELSE IF y = Zero THEN x
    ELSE AddAligned(x, y, BigShl(x.m, x.e - Min(x.e, y.e)),
                    BigShl(y.m, y.e - Min(x.e, y.e)), Min(x.e, y.e))

\* x - y
DoubleSub(x, y) == DoubleAdd(x, Negated(y))

\* x * y
DoubleMul(x, y) == RoundToDouble(x.sign * y.sign, BigMul(x.m, y.m), x.e + y.e)

\* The quotient of the significand carried 16 bits further, with one more bit
\* that says whether a remainder was left.
Divided(x, qr) ==
    RoundToDouble(x.sign,
                  BigAdd(BigShl(qr.quotient, 1),
                         IF qr.remainder = 0 THEN <<>> ELSE <<1>>),
                  x.e - 17)

\* x / d for a whole number d from 1 to 2^15
DoubleDiv(x, d) == Divided(x, BigDivSmall(BigShl(x.m, 16), d))

\* x < y
DoubleLess(x, y) == DoubleSub(x, y).sign = -1

\* Math.min(x, y) and Math.max(x, y)
Smaller(x, y, less) == IF less THEN y ELSE x

DoubleMin(x, y) == Smaller(x, y, DoubleLess(y, x))

DoubleMax(x, y) == Smaller(x, y, DoubleLess(x, y))

----------------------------------------------------------------------------
(* calculatePaymentPlan on binary64 numbers: the same statements as above, *)
(* with every arithmetic operation of the source rounded as the source     *)
(* rounds it, and the running totals updated debt by debt in the order of  *)
(* the forEach.  Each constant of the source is an operator here that      *)
(* takes the constants before it as parameters.                            *)

\* debt.remainingBalance * (debt.interestRate / 100 / 12)
InterestThisMonthDouble(d) ==
    DoubleMul(d.remainingBalance, DoubleDiv(DoubleDiv(d.interestRate, 100), 12))

\* Math.min(debt.minimumPayment, debt.remainingBalance + interestThisMonth)
PaymentAmountDouble(d, interestThisMonth) ==
    DoubleMin(d.minimumPayment, DoubleAdd(d.remainingBalance, interestThisMonth))

\* Math.max(0, paymentAmount - interestThisMonth)
PrincipalPaymentDouble(paymentAmount, interestThisMonth) ==
    DoubleMax(Zero, DoubleSub(paymentAmount, interestThisMonth))

\* Math.max(0, debt.remainingBalance - principalPayment)
RemainingBalanceDouble(d, principalPayment) ==
    DoubleMax(Zero, DoubleSub(d.remainingBalance, principalPayment))

\* The end of the forEach body for an active debt: the debt updated, the record
\* pushed, and what goes to the running totals.
Updated(d, paymentAmount, interestPayment, rb) ==
    [debt |-> [d EXCEPT !.remainingBalance = rb, !.isPaidOff = (rb = Zero)],
     record |-> [debtId |-> d.id, amount |-> paymentAmount, remainingBalance |-> rb,
                 isPaidOff |-> (rb = Zero)],
     paymentAmount |-> paymentAmount,
     interestPayment |-> interestPayment]

WithPrincipal(d, paymentAmount, principalPayment) ==
    Updated(d, paymentAmount, DoubleSub(paymentAmount, principalPayment),
            RemainingBalanceDouble(d, principalPayment))

WithPayment(d, interestThisMonth, paymentAmount) ==
    WithPrincipal(d, paymentAmount,
                  PrincipalPaymentDouble(paymentAmount, interestThisMonth))

WithInterest(d, interestThisMonth) ==
    WithPayment(d, interestThisMonth, PaymentAmountDouble(d, interestThisMonth))

\* The forEach body for a debt that is not paid off.
MinimumPaymentDouble(d) == WithInterest(d, InterestThisMonthDouble(d))

\* The locals after the forEach body for an active debt, u being what the body
\* computed.
AfterActive(t, u) ==
    [remainingBudget |-> DoubleSub(t.remainingBudget, u.paymentAmount),
     totalPaid |-> DoubleAdd(t.totalPaid, u.paymentAmount),
     totalInterestPaid |-> DoubleAdd(t.totalInterestPaid, u.interestPayment),
     workingDebts |-> Append(t.workingDebts, u.debt),
     monthlyPayments |-> Append(t.monthlyPayments, u.record)]

\* The locals after the forEach body for debt d.
AfterDebt(t, d) ==
    IF d.isPaidOff
    THEN [t EXCEPT !.workingDebts = Append(@, d),
                   !.monthlyPayments =
                       Append(@, [debtId |-> d.id, amount |-> Zero,
                                  remainingBalance |-> Zero, isPaidOff |-> TRUE])]
    ELSE AfterActive(t, MinimumPaymentDouble(d))

RECURSIVE AfterForEach(_, _, _)
\* The locals after the forEach has gone through the debts of wd from the n-th
\* on, t being the locals before it.
AfterForEach(wd, n, t) ==
    IF n > Len(wd) THEN t ELSE AfterForEach(wd, n + 1, AfterDebt(t, wd[n]))

\* The comparators: the difference the source computes.
CompareDouble(strategy, a, b) ==
    CASE strategy = "avalanche" -> DoubleSub(b.interestRate, a.interestRate)
      [] strategy = "snowball" -> DoubleSub(a.remainingBalance, b.remainingBalance)
      [] strategy = "highestPaymentFirst" -> DoubleSub(b.minimumPayment, a.minimumPayment)
      [] strategy = "lowestPaymentFirst" -> DoubleSub(a.minimumPayment, b.minimumPayment)

\* x goes before the first element of sorted that the comparator puts behind it.
InsertDouble(sorted, x, strategy, wd) ==
    InsertAt(sorted, x,
        {i \in 1..Len(sorted) :
            DoubleLess(Zero, CompareDouble(strategy, wd[sorted[i]], wd[x]))})

RECURSIVE SortActiveDouble(_, _, _, _)
SortActiveDouble(active, n, strategy, wd) ==
    IF n = 0 THEN <<>>
    ELSE InsertDouble(SortActiveDouble(active, n - 1, strategy, wd), active[n],
                      strategy, wd)

TargetDebtDouble(strategy, wd) ==
    Head(SortActiveDouble(ActiveDebts(wd), Len(ActiveDebts(wd)), strategy, wd))

RECURSIVE TotalRemainingDouble(_, _)
\* workingDebts.reduce((sum, debt) => sum + debt.remainingBalance, 0), over the
\* first n debts
TotalRemainingDouble(wd, n) ==
    IF n = 0 THEN Zero
    ELSE DoubleAdd(TotalRemainingDouble(wd, n - 1), wd[n].remainingBalance)

RunEffectDouble ==
    /\ pc = "mounted"
    /\ workingDebts' = CloneDebts(planDebts)
    /\ schedule' = <<>>
    /\ month' = 1
    /\ totalPaid' = Zero
    /\ totalInterestPaid' = Zero
    /\ remainingBudget' = Zero
    /\ monthlyPayments' = <<>>
    /\ invocations' = invocations + 1
    /\ pc' = "loop"
    /\ UNCHANGED <<coachVars, planDebts, planState>>

\* The locals as the forEach leaves them.
ForEachDone(t) ==
    /\ remainingBudget' = t.remainingBudget
    /\ totalPaid' = t.totalPaid
    /\ totalInterestPaid' = t.totalInterestPaid
    /\ workingDebts' = t.workingDebts
    /\ monthlyPayments' = t.monthlyPayments

MinimumPaymentsDouble ==
    /\ pc = "loop"
    /\ LoopCondition
    /\ ForEachDone(AfterForEach(workingDebts, 1,
           [remainingBudget |-> monthlyBudget, totalPaid |-> totalPaid,
            totalInterestPaid |-> totalInterestPaid,
            workingDebts |-> <<>>, monthlyPayments |-> <<>>]))
    /\ pc' = "extra"
    /\ UNCHANGED <<coachVars, planDebts, planState, schedule, month, invocations>>

HasTargetDouble == DoubleLess(Zero, remainingBudget) /\ ActiveDebts(workingDebts) # <<>>

\* schedule.push({month, payments, totalRemaining, totalPaid, totalInterestPaid})
\* with the locals as the extra payment leaves them.
PushSnapshotDouble(wd, payments, paid) ==
    /\ workingDebts' = wd
    /\ monthlyPayments' = payments
    /\ totalPaid' = paid
    /\ schedule' = Append(schedule,
          [month |-> month, payments |-> payments,
           totalRemaining |-> TotalRemainingDouble(wd, Len(wd)),
           totalPaid |-> paid, totalInterestPaid |-> totalInterestPaid])

\* The target at position t gets the extra payment and has rb left; its record
\* is the r-th (0: none).
TargetPaid(t, extraPayment, rb, r) ==
    PushSnapshotDouble(
        [workingDebts EXCEPT ![t].remainingBalance = rb, ![t].isPaidOff = (rb = Zero)],
        IF r # 0
        THEN [monthlyPayments EXCEPT
                 ![r] = [@ EXCEPT !.amount = DoubleAdd(@, extraPayment),
                                  !.remainingBalance = rb,
                                  !.isPaidOff = (rb = Zero)]]
        ELSE monthlyPayments,
        DoubleAdd(totalPaid, extraPayment))

WithExtra(t, extraPayment) ==
    TargetPaid(t, extraPayment,
               DoubleSub(workingDebts[t].remainingBalance, extraPayment),
               FindRecord(monthlyPayments, workingDebts[t].id))

WithTarget(t) ==
    WithExtra(t, DoubleMin(remainingBudget, workingDebts[t].remainingBalance))

ExtraPaymentDouble ==
    /\ pc = "extra"
    /\ IF HasTargetDouble
       THEN WithTarget(TargetDebtDouble(selectedStrategy, workingDebts))
       ELSE PushSnapshotDouble(workingDebts, monthlyPayments, totalPaid)
    /\ month' = month + 1
    /\ pc' = "loop"
    /\ UNCHANGED <<coachVars, planDebts, planState, totalInterestPaid,
                   remainingBudget, invocations>>

\* The largest balance of the small debt, in whole currency units.
MaxSmallBalance == 24

\* 4.5% and 20% a year
DoubleRates == {Double(9, 1), Double(20, 0)}

\* A debt of a few units with a minimum payment of 50, far above what it owes.
SmallDebts ==
    {Debt(1, Double(b, 0), r, Double(50, 0)) : b \in 1..MaxSmallBalance, r \in DoubleRates}

\* A debt of 1000 at 5% with a minimum payment of 50.
OtherDebt == Debt(2, Double(1000, 0), Double(5, 0), Double(50, 0))

\* The small debt alone or before the other one, and a budget of 600.
DoubleInputs ==
    {Props(<<d>>, Double(600, 0), "avalanche") : d \in SmallDebts}
        \cup {Props(<<d, OtherDebt>>, Double(600, 0), s) :
                 d \in SmallDebts, s \in {"avalanche", "snowball"}}

InitDouble == MountedOn(DoubleInputs)

NextDouble ==
    \/ RunEffectDouble
    \/ MinimumPaymentsDouble
    \/ ExtraPaymentDouble
    \/ StoreResults

DoubleSpec == InitDouble /\ [][NextDouble]_vars

----------------------------------------------------------------------------
(* Properties.                                                             *)

NonNegative(d) == d.balance >= 0 /\ d.interestRate >= 0 /\ d.minimumPayment >= 0

AllPaidOff == \A i \in 1..Len(workingDebts) : workingDebts[i].isPaidOff

InputIs(in) ==
    /\ planDebts = in.debts
    /\ monthlyBudget = in.monthlyBudget
    /\ selectedStrategy = in.strategy

LastSnapshot == paymentSchedule[Len(paymentSchedule)]

\* The precondition of the termination property: debts, none of them with a
\* negative field, and a budget above the sum of the minimum payments.
StrictlyFeasible ==
    /\ Len(planDebts) > 0
    /\ \A i \in 1..Len(planDebts) : NonNegative(planDebts[i])
    /\ monthlyBudget > TotalMinimum(planDebts)

\* C1 as stated: with a non-empty list of debts without negative fields and a
\* budget above the sum of the minimum payments, the run ends with every debt
\* paid off and a last snapshot whose totalRemaining is 0, within 600 months.
C1_PaidOffWithinCap ==
    (pc = "done" /\ StrictlyFeasible) =>
        /\ AllPaidOff
        /\ Len(paymentSchedule) \in 1..CapMonths
        /\ LastSnapshot.totalRemaining = 0

\* C1 amended: under the same precondition the run ends after at most 600
\* months, either with every debt paid off and a last totalRemaining of 0, or
\* stopped by the cap, with exactly 600 snapshots and a positive totalRemaining.
C1_PaidOffOrCapped ==
    (pc = "done" /\ StrictlyFeasible) =>
        /\ Len(paymentSchedule) \in 1..CapMonths
        /\ \/ AllPaidOff /\ LastSnapshot.totalRemaining = 0
           \/ /\ ~AllPaidOff
              /\ Len(paymentSchedule) = CapMonths
              /\ LastSnapshot.totalRemaining > 0

C1_Witness ==
    /\ pc = "done" /\ StrictlyFeasible
    /\ ~AllPaidOff
    /\ Len(paymentSchedule) = CapMonths

\* C2 as stated: scenario A ends after one month with the debt paid off, a
\* totalInterestPaid of 12.00 and a totalPaid of 1212.00.
C2_ScenarioAOneMonth ==
    (pc = "done" /\ InputIs(ScenarioA)) =>
        /\ Len(paymentSchedule) = 1
        /\ paymentSchedule[1].payments[1].isPaidOff
        /\ totalInterestPaidState = 1200
        /\ totalPaidState = 121200

\* C2 amended: scenario A takes two months. Month 1 pays the minimum of 1200.00,
\* of which 12.00 is interest, and leaves 12.00; month 2 pays 12.12 and the debt
\* is paid off; totalInterestPaid is 12.12 and totalPaid 1212.12.
C2_ScenarioATwoMonths ==
    (pc = "done" /\ InputIs(ScenarioA)) =>
        /\ Len(paymentSchedule) = 2
        /\ paymentSchedule[1].payments[1] =
              [debtId |-> 1, amount |-> 120000, remainingBalance |-> 1200,
               isPaidOff |-> FALSE]
        /\ paymentSchedule[1].totalInterestPaid = 1200
        /\ paymentSchedule[2].payments[1] =
              [debtId |-> 1, amount |-> 1212, remainingBalance |-> 0,
               isPaidOff |-> TRUE]
        /\ totalMonths = 2
        /\ totalInterestPaidState = 1212
        /\ totalPaidState = 121212

C2_Witness == pc = "done" /\ InputIs(ScenarioA) /\ totalMonths > 0

\* C3 as stated: in scenario C (snowball) the extra payment of month 1 goes to
\* A, the first debt: A pays more than 50.00 and B exactly 50.00.
C3_ScenarioCExtraToFirst ==
    (InputIs(ScenarioC) /\ Len(schedule) >= 1) =>
        /\ schedule[1].payments[1].amount > 5000
        /\ schedule[1].payments[2].amount = 5000

\* C3 amended: in scenario C the extra payment of month 1 goes to B, whose
\* balance after the minimum payments is the smaller one (less of its payment is
\* interest): B pays 150.00 and A exactly 50.00.
C3_ScenarioCExtraToSecond ==
    (InputIs(ScenarioC) /\ Len(schedule) >= 1) =>
        /\ schedule[1].payments[1].amount = 5000
        /\ schedule[1].payments[2].amount = 15000
        /\ schedule[1].payments[2].remainingBalance
              < schedule[1].payments[1].remainingBalance

C3_Witness == InputIs(ScenarioC) /\ Len(schedule) = 1 /\ pc = "loop"

\* C4: whenever the results tab is active, the budget covers the sum of the
\* minimum payments and there is at least one debt.
C4_ResultsOnlyWithValidBudget ==
    activeTab = "results" => isValidBudget /\ Len(debts) # 0

\* What calculatePaymentPlan stores besides the schedule itself.
StoredTotals == <<totalMonths, totalInterestPaidState, totalPaidState>>

\* C5: a run stopped by the cap with a debt still unpaid stores an outcome that
\* differs, apart from the schedule's contents, from the outcome of a run that
\* paid off in exactly 600 months: here from that of the run on one debt of 6.00
\* without interest paid one cent a month, which stores 600 months, no interest
\* and 6.00 paid.
C5_CappedRunDistinct ==
    (pc = "done" /\ ~AllPaidOff) => StoredTotals # <<CapMonths, 0, CapMonths>>

\* The run that pays off in exactly 600 months and what it stores.
C5_PaidOffInCapMonths ==
    pc = "done" /\ AllPaidOff /\ StoredTotals = <<CapMonths, 0, CapMonths>>

InvalidInput ==
    \/ Len(planDebts) = 0
    \/ \E i \in 1..Len(planDebts) : ~NonNegative(planDebts[i])

\* C6: with an empty list of debts, or a debt with a negative balance, rate or
\* minimum payment, no month is simulated and no result is stored.
C6_InvalidInputRejected ==
    InvalidInput => pc \in {"mounted", "loop"} /\ schedule = <<>> /\ totalMonths = 0

\* The balance a debt has before month k of the stored schedule.
BalanceBefore(k, i) ==
    IF k = 1 THEN planDebts[i].balance
    ELSE paymentSchedule[k - 1].payments[i].remainingBalance

\* Month k is the first month whose record of debt i says paid off.
FirstPaidOff(k, i) ==
    /\ paymentSchedule[k].payments[i].isPaidOff
    /\ k > 1 => ~paymentSchedule[k - 1].payments[i].isPaidOff

\* C7: in the stored schedule the remainingBalance of a debt without negative
\* fields never goes up from one month to the next, nor in month 1 above the
\* balance of the input, and it is 0 in the first month whose record says paid
\* off.
C7_BalanceNeverIncreases ==
    pc = "done" =>
        \A i \in 1..Len(planDebts) : \A k \in 1..Len(paymentSchedule) :
            NonNegative(planDebts[i]) =>
                /\ paymentSchedule[k].payments[i].debtId = planDebts[i].id
                /\ paymentSchedule[k].payments[i].remainingBalance <= BalanceBefore(k, i)
                /\ FirstPaidOff(k, i) =>
                      paymentSchedule[k].payments[i].remainingBalance = 0

\* A debt whose minimum payment is below its first month's interest, paid off
\* in the end after three months or more.
C7_Witness ==
    /\ pc = "done"
    /\ Len(paymentSchedule) >= 3
    /\ \E i \in 1..Len(planDebts) :
          /\ NonNegative(planDebts[i])
          /\ planDebts[i].minimumPayment
                < (planDebts[i].balance * planDebts[i].interestRate) \div 120000
          /\ FirstPaidOff(Len(paymentSchedule), i)

\* The amounts of all records of month k of the stored schedule.
MonthAmount(k) ==
    Sum([i \in 1..Len(paymentSchedule[k].payments) |->
            paymentSchedule[k].payments[i].amount])

RECURSIVE TotalPaidMatches(_, _)
\* From month k on, with acc the sum of the amounts of the months before k: the
\* totalPaid of each snapshot is the sum of the amounts up to its month.
TotalPaidMatches(k, acc) ==
    \/ k > Len(paymentSchedule)
    \/ /\ paymentSchedule[k].totalPaid = acc + MonthAmount(k)
       /\ TotalPaidMatches(k + 1, acc + MonthAmount(k))

TopRateDebts ==
    {i \in 1..Len(workingDebts) :
        /\ ~workingDebts[i].isPaidOff
        /\ \A j \in 1..Len(workingDebts) :
              ~workingDebts[j].isPaidOff =>
                  workingDebts[j].interestRate <= workingDebts[i].interestRate}

\* C10: in a month of an avalanche run with budget left after the minimum
\* payments and two or more active debts sharing the highest rate, the extra
\* payment goes to the first of them in the order of the input, and to no other
\* debt.
C10_AvalancheTieToFirst ==
    [][(/\ pc = "extra"
        /\ selectedStrategy = "avalanche"
        /\ remainingBudget > 0
        /\ Cardinality(TopRateDebts) >= 2) =>
            \A i \in 1..Len(workingDebts) :
                (/\ workingDebts'[i].remainingBalance < workingDebts[i].remainingBalance
                 /\ monthlyPayments'[i].amount > monthlyPayments[i].amount)
                    <=> (i \in TopRateDebts /\ \A j \in TopRateDebts : i <= j)]_vars

\* The tie has come up in two months in a row and the first debt took the extra
\* payment both times.
C10_Witness ==
    /\ pc = "loop" /\ selectedStrategy = "avalanche"
    /\ Len(planDebts) = 2 /\ Len(schedule) = 2
    /\ planDebts[1].interestRate = planDebts[2].interestRate
    /\ monthlyBudget > TotalMinimum(planDebts)
    /\ \A k \in 1..2 :
          /\ ~schedule[k].payments[2].isPaidOff
          /\ schedule[k].payments[1].amount > planDebts[1].minimumPayment
          /\ schedule[k].payments[2].amount <= planDebts[2].minimumPayment

\* The minimum payment of the debt is above what it owes with this month's
\* interest.
Clamped(d) ==
    /\ ~d.isPaidOff
    /\ DoubleLess(DoubleAdd(d.remainingBalance, InterestThisMonthDouble(d)),
                  d.minimumPayment)

\* Debt i was active when the month began and its record holds less than its
\* minimum payment.
ClampedThisMonth(i) ==
    /\ schedule # <<>> => ~schedule[Len(schedule)].payments[i].isPaidOff
    /\ DoubleLess(monthlyPayments[i].amount, workingDebts[i].minimumPayment)

\* C11: in a month in which the minimum payment of an active debt is above its
\* remaining balance plus the month's interest, the minimum payments pay exactly
\* that sum for the debt, leave it a remaining balance of 0 and mark it paid
\* off, and the extra payment of the month adds nothing to its record.
C11_ClampPaysOffAtOnce ==
    [][/\ (pc = "loop" /\ pc' = "extra") =>
             \A i \in 1..Len(workingDebts) :
                 Clamped(workingDebts[i]) =>
                     /\ monthlyPayments'[i].amount =
                           DoubleAdd(workingDebts[i].remainingBalance,
                                     InterestThisMonthDouble(workingDebts[i]))
                     /\ workingDebts'[i].remainingBalance = Zero
                     /\ workingDebts'[i].isPaidOff
       /\ (pc = "extra" /\ pc' = "loop") =>
             \A i \in 1..Len(workingDebts) :
                 ClampedThisMonth(i) =>
                     monthlyPayments'[i].amount = monthlyPayments[i].amount]_vars

\* Every record of month k of the stored schedule says paid off.
AllRecordsPaidOff(k) ==
    \A i \in 1..Len(paymentSchedule[k].payments) :
        paymentSchedule[k].payments[i].isPaidOff

\* C12: for every input the schedule has at most 600 snapshots and the k-th
\* snapshot carries month k; what is stored is the schedule built in the loop,
\* which stopped after the first month that left every debt paid off, or after
\* month 600 when no month did.
C12_AtMostCapSnapshots ==
    /\ Len(schedule) <= CapMonths
    /\ pc \in {"loop", "extra"} => month = Len(schedule) + 1
    /\ pc = "done" =>
          /\ paymentSchedule = schedule
          /\ totalMonths = Len(schedule)
          /\ \A k \in 1..Len(paymentSchedule) :
                /\ paymentSchedule[k].month = k
                /\ k < Len(paymentSchedule) => ~AllRecordsPaidOff(k)
          /\ (planDebts # <<>> /\ Len(paymentSchedule) < CapMonths) =>
                /\ Len(paymentSchedule) >= 1
                /\ AllRecordsPaidOff(Len(paymentSchedule))

\* A run on a debt whose minimum payment is below its interest and whose budget
\* leaves nothing for an extra payment: stopped after month 600, the debt unpaid.
C12_Witness ==
    /\ pc = "done"
    /\ Len(paymentSchedule) = CapMonths
    /\ paymentSchedule[CapMonths].month = CapMonths
    /\ ~AllRecordsPaidOff(CapMonths)
    /\ planDebts[1].minimumPayment > 0
    /\ planDebts[1].minimumPayment < InterestThisMonth(workingDebts[1])
    /\ monthlyBudget <= planDebts[1].minimumPayment

\* Debt t comes first among the working debts for the strategy, or ties with j.
NotBehind(strategy, t, j) ==
    CASE strategy = "avalanche" ->
            workingDebts[t].interestRate >= workingDebts[j].interestRate
      [] strategy = "snowball" ->
            workingDebts[t].remainingBalance <= workingDebts[j].remainingBalance
      [] strategy = "highestPaymentFirst" ->
            workingDebts[t].minimumPayment >= workingDebts[j].minimumPayment
      [] strategy = "lowestPaymentFirst" ->
            workingDebts[t].minimumPayment <= workingDebts[j].minimumPayment

\* C13: in a month with budget left after the minimum payments and a debt still
\* active after them, the debt whose balance the extra payment reduces is an
\* active one, and among the active debts it has the highest rate (avalanche),
\* the smallest balance left after the minimum payments (snowball), the highest
\* minimum payment (highestPaymentFirst) or the lowest (lowestPaymentFirst).
C13_TargetIsFirstOfStrategy ==
    [][(/\ pc = "extra"
        /\ remainingBudget > 0
        /\ \E i \in 1..Len(workingDebts) : ~workingDebts[i].isPaidOff) =>
            \E t \in 1..Len(workingDebts) :
                /\ ~workingDebts[t].isPaidOff
                /\ workingDebts'[t].remainingBalance < workingDebts[t].remainingBalance
                /\ monthlyPayments'[t].amount > monthlyPayments[t].amount
                /\ \A j \in 1..Len(workingDebts) :
                      /\ ~workingDebts[j].isPaidOff =>
                            NotBehind(selectedStrategy, t, j)
                      /\ workingDebts[j].isPaidOff =>
                            monthlyPayments'[j] = monthlyPayments[j]]_vars

\* Three debts, the first paid off by its minimum payment in month 1, and the
\* extra payment of that month to the third, which no strategy but
\* highestPaymentFirst or snowball puts before the second.
C13_Witness ==
    /\ pc = "loop" /\ Len(schedule) = 1 /\ Len(planDebts) = 3
    /\ selectedStrategy \in {"highestPaymentFirst", "snowball"}
    /\ planDebts[1].minimumPayment > 0
    /\ schedule[1].payments[1].isPaidOff
    /\ schedule[1].payments[1].amount <= planDebts[1].minimumPayment
    /\ ~schedule[1].payments[2].isPaidOff
    /\ schedule[1].payments[2].amount <= planDebts[2].minimumPayment
    /\ schedule[1].payments[3].amount > planDebts[3].minimumPayment

\* C14: the extra payment of a month changes the record and the balance of at
\* most one debt; that debt gets min(remainingBudget, its remaining balance),
\* all of it taken off its balance and added to totalPaid, none of it to
\* totalInterestPaid; what is left of the budget after that goes to no debt.
C14_OneTargetSurplusUnspent ==
    [][pc = "extra" =>
          /\ Cardinality({i \in 1..Len(workingDebts) :
                             \/ monthlyPayments'[i] # monthlyPayments[i]
                             \/ workingDebts'[i] # workingDebts[i]}) <= 1
          /\ totalInterestPaid' = totalInterestPaid
          /\ \A i \in 1..Len(workingDebts) :
                monthlyPayments'[i] # monthlyPayments[i] =>
                    LET extra == Min(remainingBudget, workingDebts[i].remainingBalance)
                    IN  /\ monthlyPayments'[i].amount = monthlyPayments[i].amount + extra
                        /\ workingDebts'[i].remainingBalance =
                              workingDebts[i].remainingBalance - extra
                        /\ monthlyPayments'[i].remainingBalance =
                              workingDebts'[i].remainingBalance
                        /\ totalPaid' = totalPaid + extra
          /\ (\A i \in 1..Len(workingDebts) : monthlyPayments'[i] = monthlyPayments[i])
                => totalPaid' = totalPaid]_vars

\* A month whose extra payment paid off its target with budget to spare, while
\* another debt stayed active and got its minimum payment only.
C14_Witness ==
    /\ pc = "loop" /\ Len(schedule) >= 1 /\ Len(planDebts) >= 2
    /\ \E t, j \in 1..Len(planDebts) :
          LET rec == schedule[Len(schedule)].payments
          IN  /\ t # j
              /\ rec[t].isPaidOff
              /\ rec[t].amount > planDebts[t].minimumPayment
              /\ ~rec[j].isPaidOff
              /\ rec[j].amount <= planDebts[j].minimumPayment
              /\ Sum([i \in 1..Len(rec) |-> rec[i].amount]) < monthlyBudget

NonNegativeInput == \A i \in 1..Len(planDebts) : NonNegative(planDebts[i])

InputBalances == Sum([i \in 1..Len(planDebts) |-> planDebts[i].balance])

AmountsThisMonth(payments) == Sum([i \in 1..Len(payments) |-> payments[i].amount])

\* The part of C16 that holds: for an input without negative fields the minimum
\* payments pay min(minimumPayment, remainingBalance + interest) on every active
\* debt, whatever the budget, and when the budget is at least the sum of the
\* minimum payments the amounts of a month add up to the budget at most.
ClampedMinimumsWithinBudget ==
    /\ (pc = "loop" /\ pc' = "extra") =>
          \A i \in 1..Len(workingDebts) :
              ~workingDebts[i].isPaidOff =>
                  monthlyPayments'[i].amount =
                      Min(workingDebts[i].minimumPayment,
                          workingDebts[i].remainingBalance
                              + InterestThisMonth(workingDebts[i]))
    /\ (pc = "extra" /\ monthlyBudget >= TotalMinimum(planDebts)) =>
          AmountsThisMonth(monthlyPayments') <= monthlyBudget

\* C16 as stated: besides that, when the budget is below the sum of the minimum
\* payments no month has an extra payment.
C16_NoExtraBelowMinimums ==
    [][NonNegativeInput =>
          /\ ClampedMinimumsWithinBudget
          /\ (pc = "extra" /\ monthlyBudget < TotalMinimum(planDebts)) =>
                monthlyPayments' = monthlyPayments]_vars

\* C16 amended: when the budget is below the sum of the minimum payments, a
\* month has an extra payment exactly when the minimum payments made in it add
\* up to less than the budget and a debt is still active after them.
C16_ExtraWhenBudgetLeft ==
    [][NonNegativeInput =>
          /\ ClampedMinimumsWithinBudget
          /\ (pc = "extra" /\ monthlyBudget < TotalMinimum(planDebts)) =>
                (monthlyPayments' # monthlyPayments
                    <=> /\ AmountsThisMonth(monthlyPayments) < monthlyBudget
                        /\ \E i \in 1..Len(workingDebts) :
                              ~workingDebts[i].isPaidOff)]_vars

\* A budget below the sum of the minimum payments: the amounts of month 1 are
\* above the budget, and month 2 has an extra payment.
C16_Witness ==
    /\ pc = "loop" /\ Len(schedule) = 2 /\ NonNegativeInput
    /\ monthlyBudget < TotalMinimum(planDebts)
    /\ AmountsThisMonth(schedule[1].payments) > monthlyBudget
    /\ \E i \in 1..Len(planDebts) :
          schedule[2].payments[i].amount > planDebts[i].minimumPayment

\* totalRemaining as the month in progress found it.
RemainingBefore ==
    IF schedule = <<>> THEN InputBalances
    ELSE schedule[Len(schedule)].totalRemaining

====
